---- MODULE Spec2Model ----
(***************************************************************************)
(* Model of notebooks/paparazzi_point_to_polygon_with_sam.ipynb: the       *)
(* get_image helper and the main loop that prompts SAM2 with every point   *)
(* of every annotation file and writes the masks and the polygon table.    *)
(*                                                                         *)
(* Strings are sequences of one-character strings; the extension ".jpg",   *)
(* ".png" and the name "polygon_masks.csv" are single elements.            *)
(***************************************************************************)
EXTENDS Integers, Sequences, FiniteSets, TLC

\* ------------------------------------------------------------------ bounds
\* annotation files yielded by the glob in one run
MaxFiles == 2
\* rows of one annotation file
MaxRows == 2
\* candidates returned by one predict call in the selection specification
MaxCand == 3
\* length of an annotation stem in the get_image specification
MaxStemLen == 4

None == <<"None">>

\* no predict call has returned yet
NoReturn == [masks |-> <<>>, scores |-> <<>>]

\* ----------------------------------------------------------- pure helpers
RECURSIVE split(_, _)
\* str.split(sep): the tokens between the separators, empty tokens included
split(s, sep) ==
    IF \A j \in 1..Len(s) : s[j] # sep
    THEN <<s>>
    ELSE LET j == CHOOSE m \in 1..Len(s) :
                      s[m] = sep /\ \A n \in 1..(m - 1) : s[n] # sep
         IN  <<SubSeq(s, 1, j - 1)>> \o split(SubSeq(s, j + 1, Len(s)), sep)

RECURSIVE join(_, _)
\* sep.join(tokens)
join(sep, tokens) ==
    IF tokens = <<>> THEN <<>>
    ELSE IF Len(tokens) = 1 THEN tokens[1]
    ELSE tokens[1] \o <<sep>> \o join(sep, Tail(tokens))

\* tokens[:-1]
AllButLast(tokens) == SubSeq(tokens, 1, Len(tokens) - 1)

\* the image named by the first token alone
image_path_first_token(annotation_name) ==
    split(annotation_name, "_")[1] \o <<".jpg">>

\* lines 46-47: the file get_image looks for, <image_name>.jpg in image_dir
image_path(annotation_name) ==
    join("_", AllButLast(split(annotation_name, "_"))) \o <<".jpg">>

\* Path.stem: the name without its last suffix (a name that is only a suffix
\* keeps it)
PathStem(name) ==
    IF Len(name) > 1 /\ name[Len(name)] \in {".jpg", ".png", ".txt"}
    THEN SubSeq(name, 1, Len(name) - 1)
    ELSE name

\* np.array(Image.open(image_file)): the decoded pixels of that file
Decode(image_file) == <<"pixels", image_file>>

\* lines 45-52
get_image(annotation_name, dir) ==
    LET image_file == image_path(annotation_name)
    IN  IF image_file \in dir
        THEN <<Decode(image_file), image_file>>
        ELSE <<None, None>>

DigitChar(d) == <<"0", "1", "2", "3", "4", "5", "6", "7", "8", "9">>[d + 1]

RECURSIVE Digits(_)
\* the decimal digits of n >= 0
Digits(n) == IF n < 10 THEN <<DigitChar(n)>>
             ELSE Digits(n \div 10) \o <<DigitChar(n % 10)>>

RECURSIVE ZeroPad(_, _)
ZeroPad(s, width) == IF Len(s) >= width THEN s ELSE ZeroPad(<<"0">> \o s, width)

\* f"{mask_id:03d}"
Fmt03d(n) == ZeroPad(Digits(n), 3)

\* mask_id taken as the 0-based index itself
MaskIdZeroBased(i) == i

\* mask_id = i + 1 (line 192), i the 0-based enumerate index
MaskId(i) == i + 1

Perms(k) == {p \in [1..k -> 1..k] : \A a, b \in 1..k : p[a] = p[b] => a = b}

\* np.argsort(scores): every index order that sorts the scores ascending; the
\* default sort kind gives no guarantee on the order of equal scores
ArgSorts(sc) ==
    {p \in Perms(Len(sc)) : \A a, b \in 1..Len(sc) : a < b => sc[p[a]] <= sc[p[b]]}

\* [::-1]
Reversed(s) == [j \in 1..Len(s) |-> s[Len(s) + 1 - j]]

\* a[ind]: fancy indexing
Take(a, ind) == [j \in 1..Len(ind) |-> a[ind[j]]]

\* the dtype of the Series iterrows() yields for a row: the common type of the
\* three columns x, y, label
RowDtype(xy_dtype, label_dtype) ==
    IF label_dtype = "object" THEN "object"
    ELSE IF xy_dtype = "float64" \/ label_dtype = "float64" THEN "float64"
    ELSE "int64"

\* the type of row["x"] and row["y"]: an object row keeps the Python value of
\* the column, a numeric row holds numpy scalars of the common type
ElemType(xy_dtype, label_dtype) ==
    LET rd == RowDtype(xy_dtype, label_dtype)
    IN  IF rd = "object"
        THEN (IF xy_dtype = "int64" THEN "int" ELSE "float")
        ELSE (IF rd = "int64" THEN "np.int64" ELSE "np.float64")

\* repr of a number inside str(list): 10, 10.0, and under numpy 2 the scalar
\* types print as np.int64(10), np.float64(10.0)
Repr(v, type, np) ==
    IF type = "int" THEN <<"d", v>>
    ELSE IF type = "float" THEN <<"d.0", v>>
    ELSE IF type = "np.int64" THEN (IF np = 1 THEN <<"d", v>> ELSE <<"np.int64(d)", v>>)
    ELSE (IF np = 1 THEN <<"d.0", v>> ELSE <<"np.float64(d.0)", v>>)

\* str([a, b])
StrList2(a, b) == <<"[", a, ", ", b, "]">>

\* line 196: str([row["x"], row["y"]])
PromptText(r, np) ==
    StrList2(Repr(r.x, r.type, np), Repr(r.y, r.type, np))

\* utils.get_polygon(mask_np): the contour of that raster
get_polygon(mask_np) == <<"polygon", mask_np>>

\* line 190: mask[0].astype(np.uint8) * 255
MaskNp(mask) == <<"uint8x255", mask[1]>>

\* writing a file: creates it or replaces its content
WriteFile(fs, path, content) ==
    [p \in (DOMAIN fs) \cup {path} |-> IF p = path THEN content ELSE fs[p]]


\* ------------------------------------------------------------------ inputs
\* annotation stems of the Annotations directory; a_1 and a_2 name the same image
Stems == {<<"a", "_", "1">>, <<"a", "_", "2">>, <<"b", "_", "1">>, <<"c", "_", "1">>}

\* line 115: the images present in image_dir (c.jpg is missing)
ImageDirFiles == {<<"a", ".jpg">>, <<"b", ".jpg">>}

\* the (x, y) coordinates an annotation row can hold
Points == {<<1, 2>>, <<3, 4>>}

\* the scores predict can return
Scores == {1, 2}

\* the point lists of an annotation file with n rows: two points, alternating
\* (the same point twice included)
RowLists(n) ==
    {[j \in 1..n |-> IF j % 2 = 1 THEN p ELSE q] : p \in Points, q \in Points}

\* dtypes read_csv infers for the coordinate columns (pixel coordinates written
\* as integers) and for the label column (integers, decimals, or text)
XYDtypes == {"int64"}
LabelDtypes == {"int64", "float64", "object"}

\* the frames read_csv can return with n rows: the rows in file order, and the
\* column dtypes
FramesOf(n) ==
    [rows : RowLists(n), xy_dtype : XYDtypes, label_dtype : LabelDtypes]

Frames == UNION {FramesOf(n) : n \in 0..MaxRows}

\* what predict can return with at most n candidates scored in S: k masks with
\* k scores; the j-th mask of the call made for row r of annotation file f is
\* the token <<f, r, j>>
Returns(f, r, n, S) ==
    UNION {[masks : {[j \in 1..k |-> <<f, r, j>>]}, scores : [1..k -> S]]
           : k \in 1..n}

\* ------------------------------------------------------------------- state
VARIABLES
    image_dir,        \* names of the files in image_dir
    annotations,      \* stems of the files in image_dir/Annotations
    np_ver,           \* major version of the installed numpy
    pc,               \* position in the notebook's last cell
    globbed,          \* annotation stems the glob generator has yielded, in order
    file,             \* stem of the current annotation file
    probe,            \* the path get_image tested for existence
    image,            \* line 140
    image_file,       \* line 140
    df_annotations,   \* line 144
    predictor_image,  \* the image held by the predictor (set_image)
    i,                \* iterations completed by the running for loop
    row,              \* line 156: the loop variable, alive after the loop
    prompt,           \* line 157
    returned,         \* what the last predict call returned
    masks,            \* lines 160, 166
    scores,           \* lines 160, 167
    all_prompts,      \* line 152
    all_masks,        \* line 153
    df_result,        \* line 182
    dirs,             \* directories under results_dir
    files,            \* files under results_dir: <<directory, name>> -> content
    calls,            \* predict calls of the current file, with the image loaded then
    set_image_count,  \* set_image calls of the current file
    writes,           \* paths written by the current file, in order
    files_at_start,   \* files when the current file started
    status,           \* how the last annotation file ended
    skipped           \* stems skipped for a missing image

vars == <<image_dir, annotations, np_ver, pc, globbed, file, probe, image,
          image_file, df_annotations, predictor_image, i, row, prompt, returned,
          masks, scores, all_prompts, all_masks, df_result, dirs, files, calls,
          set_image_count, writes, files_at_start, status, skipped>>

env == <<image_dir, annotations, np_ver>>
loopvars == <<i, row, prompt, returned, masks, scores>>
lists == <<all_prompts, all_masks>>
disk == <<dirs, files>>
ghost == <<calls, set_image_count, writes, files_at_start, skipped>>

\* the notebook's variables before the last cell has assigned them
Unassigned ==
    /\ df_annotations = None
    /\ i = 0 /\ row = None /\ prompt = None
    /\ returned = NoReturn /\ masks = None /\ scores = None
    /\ all_prompts = <<>> /\ all_masks = <<>>
    /\ df_result = <<>>

\* lines 132-136: results_dir is there and empty, the glob has yielded nothing
Init ==
    /\ image_dir = ImageDirFiles
    /\ annotations \in {S \in SUBSET Stems : Cardinality(S) <= MaxFiles}
    /\ np_ver \in {1, 2}
    /\ pc = "for_file"
    /\ globbed = <<>>
    /\ file = None /\ probe = None /\ image = None /\ image_file = None
    /\ predictor_image = None
    /\ Unassigned
    /\ dirs = {} /\ files = <<>>
    /\ calls = <<>> /\ set_image_count = 0 /\ writes = <<>>
    /\ files_at_start = <<>>
    /\ status = "none" /\ skipped = {}

Seen == {globbed[j] : j \in 1..Len(globbed)}

\* ----------------------------------------------------------------- actions
\* Every iteration assigns df_annotations, the lists, the loop variables and
\* df_result before it reads them (an iteration over no row raises at line 176,
\* before line 196 reads row), so the values the previous iteration left in
\* them are dropped when the next one starts.
Forget ==
    /\ df_annotations' = None
    /\ i' = 0 /\ row' = None /\ prompt' = None
    /\ returned' = NoReturn /\ masks' = None /\ scores' = None
    /\ all_prompts' = <<>> /\ all_masks' = <<>>
    /\ df_result' = <<>>

\* line 138: the glob yields the next annotation file, in no particular order;
\* line 140: its image is looked up
Yield(stem) ==
    /\ stem \in annotations \ Seen
    /\ globbed' = Append(globbed, stem)
    /\ file' = stem
    /\ probe' = image_path(stem)
    /\ image' = get_image(stem, image_dir)[1]
    /\ image_file' = get_image(stem, image_dir)[2]
    /\ calls' = <<>> /\ set_image_count' = 0 /\ writes' = <<>>
    /\ files_at_start' = files
    /\ Forget

\* a missing image that ends the loop (break) instead of skipping the file
ForFileSkipBreak ==
    /\ pc = "for_file"
    /\ \E stem \in annotations : Yield(stem) /\ image' = None
    /\ skipped' = skipped \cup {file'}
    /\ status' = "skipped"
    /\ pc' = "done"
    /\ UNCHANGED <<env, predictor_image, disk>>

\* lines 138-142: the image of the next annotation file is missing: continue
ForFileSkip ==
    /\ pc = "for_file"
    /\ \E stem \in annotations : Yield(stem) /\ image' = None
    /\ skipped' = skipped \cup {file'}
    /\ status' = "skipped"
    /\ pc' = "for_file"
    /\ UNCHANGED <<env, predictor_image, disk>>

\* lines 138-141: the next annotation file has its image
ForFileLoad ==
    /\ pc = "for_file"
    /\ \E stem \in annotations : Yield(stem) /\ image' # None
    /\ status' = "running"
    /\ pc' = "read_csv"
    /\ UNCHANGED <<env, predictor_image, disk, skipped>>

\* line 202: the glob is exhausted
Done ==
    /\ pc = "for_file" /\ Seen = annotations
    /\ pc' = "done"
    /\ UNCHANGED <<env, globbed, file, probe, image, image_file, df_annotations,
                   predictor_image, loopvars, lists, df_result, disk, status, ghost>>

\* an exception caught around the loop body: the file is dropped, the loop
\* goes on
RaiseCaught(kind) ==
    /\ pc' = "for_file"
    /\ status' = kind
    /\ UNCHANGED <<env, globbed, file, probe, image, image_file, df_annotations,
                   predictor_image, loopvars, lists, df_result, disk, ghost>>

\* an exception nothing catches ends the run
Raise(kind) ==
    /\ pc' = "crashed"
    /\ status' = kind
    /\ UNCHANGED <<env, globbed, file, probe, image, image_file, df_annotations,
                   predictor_image, loopvars, lists, df_result, disk, ghost>>

\* lines 144-154
ReadCsv ==
    /\ pc = "read_csv"
    /\ df_annotations' \in Frames
    /\ all_prompts' = <<>> /\ all_masks' = <<>>
    /\ pc' = "set_image"
    /\ UNCHANGED <<env, globbed, file, probe, image, image_file, predictor_image,
                   loopvars, df_result, disk, status, ghost>>

\* line 144: read_csv raises on a file it cannot parse
ReadCsvRaises == pc = "read_csv" /\ Raise("parse_error")

\* a predictor that keeps the image it held
SetImageCtxKept(held, img) == held

\* predictor.set_image(image): the image the predictor holds afterwards
SetImageCtx(held, img) == img

\* line 155
SetImage ==
    /\ pc = "set_image"
    /\ predictor_image' = SetImageCtx(predictor_image, image)
    /\ set_image_count' = set_image_count + 1
    /\ i' = 0
    /\ pc' = "predict"
    /\ UNCHANGED <<env, globbed, file, probe, image, image_file, df_annotations,
                   row, prompt, returned, masks, scores, lists, df_result, disk,
                   calls, writes, files_at_start, status, skipped>>

\* line 155: the predictor fails on the image
SetImageRaises == pc = "set_image" /\ Raise("inference_error")

\* the Series iterrows() yields for the n-th row
IterRow(df, n) ==
    [x |-> df.rows[n][1], y |-> df.rows[n][2],
     type |-> ElemType(df.xy_dtype, df.label_dtype)]

\* line 157: np.array([[row["x"], row["y"]]])
PromptOf(r) == << <<r.x, r.y>> >>

\* lines 161-163: the arguments of the predict call
PredictArgs(p) ==
    [point_coords |-> p, point_labels |-> <<1>>, multimask_output |-> FALSE]

\* lines 156-164; with multimask_output=False the predictor returns one mask
Predict ==
    /\ pc = "predict" /\ i < Len(df_annotations.rows)
    /\ row' = IterRow(df_annotations, i + 1)
    /\ prompt' = PromptOf(row')
    /\ calls' = Append(calls, [args |-> PredictArgs(prompt'), loaded |-> predictor_image])
    /\ returned' \in Returns(file, i + 1, 1, {1})
    /\ masks' = returned'.masks
    /\ scores' = returned'.scores
    /\ pc' = "sort"
    /\ UNCHANGED <<env, globbed, file, probe, image, image_file, df_annotations,
                   predictor_image, i, lists, df_result, disk, set_image_count,
                   writes, files_at_start, status, skipped>>

\* line 160: predict raises
PredictRaises ==
    /\ pc = "predict" /\ i < Len(df_annotations.rows)
    /\ Raise("inference_error")

\* the ascending order, without [::-1]
SortedIndsAscending(sc) == ArgSorts(sc)

\* line 165: np.argsort(scores)[::-1]
SortedInds(sc) == {Reversed(p) : p \in ArgSorts(sc)}

\* lines 165-171
SortAppend ==
    /\ pc = "sort"
    /\ \E sorted_ind \in SortedInds(scores) :
         /\ masks' = Take(masks, sorted_ind)
         /\ scores' = Take(scores, sorted_ind)
    /\ all_prompts' = Append(all_prompts, prompt[1])
    /\ all_masks' = Append(all_masks, masks')
    /\ i' = i + 1
    /\ pc' = "predict"
    /\ UNCHANGED <<env, globbed, file, probe, image, image_file, df_annotations,
                   predictor_image, row, prompt, returned, df_result, disk,
                   status, ghost>>

\* line 156: the rows are exhausted
PredictLoopEnd ==
    /\ pc = "predict" /\ i = Len(df_annotations.rows)
    /\ pc' = "show"
    /\ UNCHANGED <<env, globbed, file, probe, image, image_file, df_annotations,
                   predictor_image, loopvars, lists, df_result, disk, status, ghost>>

\* lines 174-177
ShowResults ==
    /\ pc = "show" /\ all_prompts # <<>>
    /\ pc' = "save_image_masks"
    /\ UNCHANGED <<env, globbed, file, probe, image, image_file, df_annotations,
                   predictor_image, loopvars, lists, df_result, disk, status, ghost>>

\* line 176: np.vstack of an empty list raises ValueError
ShowRaises == pc = "show" /\ all_prompts = <<>> /\ Raise("show_error")

\* lines 181-184: utils.save_image_masks, then the empty result frame; the
\* helper's files are none of NNN.png and polygon_masks.csv
SaveImageMasks ==
    /\ pc = "save_image_masks"
    /\ df_result' = <<>>
    /\ pc' = "mkdir"
    /\ UNCHANGED <<env, globbed, file, probe, image, image_file, df_annotations,
                   predictor_image, loopvars, lists, disk, status, ghost>>

\* line 186: the directory named after image_file.stem
SaveDir == PathStem(image_file)

\* lines 186-187
MkSaveDir ==
    /\ pc = "mkdir"
    /\ dirs' = dirs \cup {SaveDir}
    /\ i' = 0
    /\ pc' = "save_mask"
    /\ UNCHANGED <<env, globbed, file, probe, image, image_file, df_annotations,
                   predictor_image, row, prompt, returned, masks, scores, lists,
                   df_result, files, status, ghost>>

\* line 193: the raster's file name
PngName(mask_id) == Fmt03d(mask_id) \o <<".png">>

\* line 196: the row whose coordinates go into the prompt column
PromptRow(n) == row

\* lines 188-190: the mask rasterized at 0-based index n
MaskAt(n) == all_masks[n + 1]

\* lines 195-199: the row df_result gets for the mask at 0-based index n
ResultRow(n, mask_np) ==
    [image_file |-> image_file,
     prompt |-> PromptText(PromptRow(n), np_ver),
     mask_id |-> Fmt03d(MaskId(n)),
     polygon |-> get_polygon(mask_np)]

\* line 200 indented into the loop: the table rewritten after every raster
SaveMaskAndCsv ==
    /\ pc = "save_mask" /\ i < Len(all_masks)
    /\ LET mask_np == MaskNp(MaskAt(i))
           path == <<SaveDir, PngName(MaskId(i))>>
           csv == <<SaveDir, <<"polygon_masks.csv">> >>
       IN  /\ df_result' = Append(df_result, ResultRow(i, mask_np))
           /\ files' = WriteFile(WriteFile(files, path, mask_np), csv, df_result')
           /\ writes' = writes \o <<path, csv>>
    /\ i' = i + 1
    /\ UNCHANGED <<env, pc, globbed, file, probe, image, image_file, df_annotations,
                   predictor_image, row, prompt, returned, masks, scores, lists,
                   dirs, calls, set_image_count, files_at_start, status, skipped>>

\* lines 188-199
SaveMask ==
    /\ pc = "save_mask" /\ i < Len(all_masks)
    /\ LET mask_np == MaskNp(MaskAt(i))
           path == <<SaveDir, PngName(MaskId(i))>>
       IN  /\ files' = WriteFile(files, path, mask_np)
           /\ writes' = Append(writes, path)
           /\ df_result' = Append(df_result, ResultRow(i, mask_np))
    /\ i' = i + 1
    /\ UNCHANGED <<env, pc, globbed, file, probe, image, image_file, df_annotations,
                   predictor_image, row, prompt, returned, masks, scores, lists,
                   dirs, calls, set_image_count, files_at_start, status, skipped>>

\* lines 193, 198: saving the raster or extracting the polygon raises
SaveMaskRaises ==
    /\ pc = "save_mask" /\ i < Len(all_masks)
    /\ Raise("save_error")

CsvName == <<"polygon_masks.csv">>

CsvPath == <<SaveDir, CsvName>>

\* line 200, and the end of the loop body
ToCsv ==
    /\ pc = "save_mask" /\ i = Len(all_masks)
    /\ files' = WriteFile(files, CsvPath, df_result)
    /\ writes' = Append(writes, CsvPath)
    /\ status' = "completed"
    /\ pc' = "for_file"
    /\ UNCHANGED <<env, globbed, file, probe, image, image_file, df_annotations,
                   predictor_image, loopvars, lists, df_result, dirs, calls,
                   set_image_count, files_at_start, skipped>>

Next ==
    \/ ForFileSkip \/ ForFileLoad \/ Done
    \/ ReadCsv \/ ReadCsvRaises
    \/ SetImage \/ SetImageRaises
    \/ Predict \/ PredictRaises \/ SortAppend \/ PredictLoopEnd
    \/ ShowResults \/ ShowRaises
    \/ SaveImageMasks \/ MkSaveDir
    \/ SaveMask \/ SaveMaskRaises \/ ToCsv

Spec == Init /\ [][Next]_vars

\* ------------------------------------------- specification of the selection
\* The state after the predict call for the only row of annotation file a_1,
\* for a predictor that returns up to MaxCand candidates.
SelectStem == <<"a", "_", "1">>

InitSelect ==
    /\ image_dir = ImageDirFiles
    /\ annotations = {SelectStem}
    /\ np_ver \in {1, 2}
    /\ pc = "sort"
    /\ globbed = <<SelectStem>>
    /\ file = SelectStem
    /\ probe = image_path(SelectStem)
    /\ image = get_image(SelectStem, image_dir)[1]
    /\ image_file = get_image(SelectStem, image_dir)[2]
    /\ df_annotations \in FramesOf(1)
    /\ predictor_image = image
    /\ i = 0
    /\ row = IterRow(df_annotations, 1)
    /\ prompt = PromptOf(row)
    /\ returned \in Returns(file, 1, MaxCand, Scores)
    /\ masks = returned.masks
    /\ scores = returned.scores
    /\ all_prompts = <<>> /\ all_masks = <<>>
    /\ df_result = <<>>
    /\ dirs = {} /\ files = <<>>
    /\ calls = <<[args |-> PredictArgs(prompt), loaded |-> predictor_image]>>
    /\ set_image_count = 1 /\ writes = <<>>
    /\ files_at_start = <<>>
    /\ status = "running" /\ skipped = {}

\* lines 165-200 for that row
NextSelect ==
    \/ SortAppend \/ PredictLoopEnd \/ ShowResults
    \/ SaveImageMasks \/ MkSaveDir \/ SaveMask \/ ToCsv

SpecSelect == InitSelect /\ [][NextSelect]_vars

\* ------------------------------------------------ specification of get_image
RECURSIVE StringsOver(_, _)
\* the strings of length n over an alphabet
StringsOver(alphabet, n) ==
    IF n = 0 THEN {<<>>}
    ELSE {Append(t, c) : t \in StringsOver(alphabet, n - 1), c \in alphabet}

\* annotation stems of 1 to MaxStemLen characters
ResolveStems == UNION {StringsOver({"a", "_"}, n) : n \in 1..MaxStemLen}

\* images that may or may not be in image_dir
ResolveImages == {<<".jpg">>, <<"a", ".jpg">>, <<"a", "_", "a", ".jpg">>}

\* one annotation file of any stem, any of the images present
InitResolve ==
    /\ image_dir \in SUBSET ResolveImages
    /\ annotations \in {{stem} : stem \in ResolveStems}
    /\ np_ver = 1
    /\ pc = "for_file"
    /\ globbed = <<>>
    /\ file = None /\ probe = None /\ image = None /\ image_file = None
    /\ predictor_image = None
    /\ Unassigned
    /\ dirs = {} /\ files = <<>>
    /\ calls = <<>> /\ set_image_count = 0 /\ writes = <<>>
    /\ files_at_start = <<>>
    /\ status = "none" /\ skipped = {}

\* lines 138-142: the call of get_image and the branch on its result
NextResolve == ForFileSkip \/ ForFileLoad

SpecResolve == InitResolve /\ [][NextResolve]_vars

\* -------------------------------------------------------------- properties
\* the rows of the frame read for the current file
NRows == Len(df_annotations.rows)

\* the table the current file wrote
Table == files[CsvPath]

\* i written as three digits, for the ordinals a file of at most nine rows has
ThreeDigits ==
    << <<"0", "0", "1">>, <<"0", "0", "2">>, <<"0", "0", "3">>,
       <<"0", "0", "4">>, <<"0", "0", "5">>, <<"0", "0", "6">>,
       <<"0", "0", "7">>, <<"0", "0", "8">>, <<"0", "0", "9">> >>

\* the rasters the current file wrote
PngWrites == {j \in 1..Len(writes) : writes[j][2] # CsvName}

\* C1: an annotation file of N >= 1 rows that is processed without an error
\* writes exactly N rasters and a table of exactly N rows; the i-th row has
\* mask_id i as three digits, and the raster <mask_id>.png holds the mask
\* retained for the i-th annotation row.
C1_OneRowAndRasterPerPoint ==
    status = "completed" =>
        /\ NRows >= 1
        /\ Cardinality(PngWrites) = NRows
        /\ Cardinality({writes[j] : j \in PngWrites}) = NRows
        /\ Len(Table) = NRows
        /\ \A n \in 1..NRows :
             /\ Table[n].mask_id = ThreeDigits[n]
             /\ <<SaveDir, Table[n].mask_id \o <<".png">> >> \in DOMAIN files
             /\ files[<<SaveDir, Table[n].mask_id \o <<".png">> >>]
                    = <<"uint8x255", all_masks[n][1]>>
             /\ all_masks[n][1][1] = file
             /\ all_masks[n][1][2] = n

\* C1 witness: a file of two rows has been processed to its end
C1_Witness == status = "completed" /\ NRows = 2 /\ Len(Table) = 2

\* C2: the prompt field of the i-th table row is the textual form of [x, y] of
\* the i-th annotation row.
C2_PromptOfItsRow ==
    status = "completed" =>
        \A n \in 1..NRows :
            Table[n].prompt = PromptText(IterRow(df_annotations, n), np_ver)

\* the candidate, by its place in the order predict returned, that the last
\* sorted call retained
Kept == all_masks[Len(all_masks)][1][3]

\* the last predict call has been sorted and its first mask retained
Selected == returned # NoReturn /\ pc # "sort" /\ all_masks # <<>>

MaxScore(sc) == CHOOSE m \in {sc[j] : j \in 1..Len(sc)} : \A j \in 1..Len(sc) : sc[j] <= m

\* the raster of the last retained mask, once written
KeptRaster == <<SaveDir, PngName(Len(all_masks))>>

LastUnderscore(stem) ==
    IF \E j \in 1..Len(stem) : stem[j] = "_"
    THEN CHOOSE j \in 1..Len(stem) :
             stem[j] = "_" /\ \A m \in (j + 1)..Len(stem) : stem[m] # "_"
    ELSE 0

\* the stem without its last token and the "_" before it; nothing when the
\* stem is a single token
WithoutLastToken(stem) == SubSeq(stem, 1, LastUnderscore(stem) - 1)

\* C4: get_image looks for <the stem's tokens but the last, joined by "_">.jpg
\* in image_dir; it returns the decoded image and that path when the file
\* exists, (None, None) when it does not.
C4_ImageFromStem ==
    globbed # <<>> =>
        LET expected == WithoutLastToken(file) \o <<".jpg">>
        IN  /\ probe = expected
            /\ expected \in image_dir =>
                   image = <<"pixels", expected>> /\ image_file = expected
            /\ expected \notin image_dir =>
                   image = None /\ image_file = None

\* C4 witness: the stem a_a_ of three tokens (the last one empty), whose image
\* a_a.jpg exists
C4_Witness ==
    /\ globbed # <<>>
    /\ file = <<"a", "_", "a", "_">>
    /\ probe = <<"a", "_", "a", ".jpg">>
    /\ probe \in image_dir
    /\ pc = "read_csv"

C6_FailureEndsRun ==
    status \in {"parse_error", "inference_error"} =>
        /\ pc = "crashed"
        /\ ~ ENABLED Next
        /\ writes = <<>>
        /\ files = files_at_start
        /\ file = globbed[Len(globbed)]

\* C6 witness: the second prediction of a file fails after an earlier file
\* wrote its outputs
C6_Witness ==
    /\ pc = "crashed" /\ status = "inference_error"
    /\ Len(calls) = 1
    /\ files # <<>>

\* C7: set_image is called once per processed file, before its first
\* prediction, and every prediction runs on the image resolved for that file.
C7_ImageSetOncePerFile ==
    /\ set_image_count <= 1
    /\ calls # <<>> => set_image_count = 1
    /\ status = "completed" => set_image_count = 1
    /\ \A j \in 1..Len(calls) :
         /\ calls[j].loaded = image
         /\ calls[j].loaded = <<"pixels", WithoutLastToken(file) \o <<".jpg">> >>

\* C7 witness: a prediction of a file that follows a file of another image
C7_Witness ==
    /\ calls # <<>>
    /\ \E p \in DOMAIN files : p[1] # SaveDir

\* C8: every prediction is issued with one point and the label 1, and the table
\* and the predictions of a processed file are those any other label column
\* would give.
C8_LabelNeverMatters ==
    /\ \A j \in 1..Len(calls) :
         /\ Len(calls[j].args.point_coords) = 1
         /\ calls[j].args.point_labels = <<1>>
    /\ status = "completed" =>
           \A l \in LabelDtypes :
               LET other == [df_annotations EXCEPT !.label_dtype = l]
               IN  \A n \in 1..NRows :
                     /\ calls[n].args = PredictArgs(PromptOf(IterRow(other, n)))
                     /\ Table[n].prompt = PromptText(IterRow(other, NRows), np_ver)

\* C9: a file writes nothing before all its predictions are made; its table is
\* written once, after its N rasters and before the next file starts, so a
\* table written by the current file has N rows and comes with N rasters.
C9_TableAfterAllRasters ==
    /\ pc \in {"read_csv", "set_image", "predict", "sort", "show",
               "save_image_masks", "mkdir"} =>
           writes = <<>> /\ files = files_at_start
    /\ writes # <<>> =>
           /\ Len(calls) = NRows /\ Len(all_masks) = NRows
           /\ \A j \in 1..Len(writes) :
                writes[j] = CsvPath =>
                    /\ j = NRows + 1 /\ Len(writes) = NRows + 1
                    /\ Len(files[CsvPath]) = NRows
                    /\ \A n \in 1..NRows :
                         /\ writes[n] = <<SaveDir, ThreeDigits[n] \o <<".png">> >>
                         /\ writes[n] \in DOMAIN files
    /\ status = "completed" <=> (writes # <<>> /\ writes[Len(writes)] = CsvPath)

\* C9 witness: the table of a file of two rows, written third
C9_Witness ==
    /\ status = "completed" /\ NRows = 2
    /\ Len(writes) = 3 /\ writes[3] = CsvPath

\* the rasters of a result directory
Rasters(d) == {p \in DOMAIN files : p[1] = d /\ p[2] # CsvName}

\* C10: at the end of a run the rasters of every result directory are those of
\* the mask_ids of its table, all from one annotation file.
C10_DirectoryMatchesTable ==
    pc = "done" =>
        \A d \in dirs :
            /\ <<d, CsvName>> \in DOMAIN files
            /\ {p[2] : p \in Rasters(d)}
                   = {files[<<d, CsvName>>][n].mask_id \o <<".png">>
                      : n \in 1..Len(files[<<d, CsvName>>])}
            /\ \A p, q \in Rasters(d) : files[p][2][1] = files[q][2][1]

====
